---- MODULE Spec2Model ----
(***************************************************************************)
(* Model of the account-scoped Elastic Cloud client                        *)
(* (src/elastic_client.py), its credential store (src/config.py) and the   *)
(* tool layer that calls it (src/server.py).                               *)
(*                                                                         *)
(* One ElasticCloudClient instance is shared by all tool calls.  Calls are *)
(* coroutines on one event loop: a call runs atomically up to its next     *)
(* await on the network (or on the future of an alru_cache entry), other   *)
(* calls run in between.  switch_account has no await: it is one step.     *)
(***************************************************************************)
EXTENDS Integers, Sequences, FiniteSets, TLC

VARIABLES
    self,      \* the ElasticCloudClient fields
    cache,     \* the three alru_cache instances: cache name -> key -> entry
    calls,     \* coroutines suspended at an await: slot -> call record
    now,       \* event-loop clock, in seconds
    epoch,     \* number of successful switch_account calls so far
    hist,      \* what has happened since the latest switch (observer only)
    last,      \* the calls that returned (or raised) in the latest step
    os         \* the process environment and the state of the accounts directory

vars == <<self, cache, calls, now, epoch, hist, last, os>>

----------------------------------------------------------------------------
(* Bounds of the model *)

MaxInflight == 2      \* coroutines suspended at the same time
MaxSwitches == 1      \* successful account switches in one behaviour
MaxTicks == 2         \* clock advances in one behaviour
MaxCalls == 2         \* client operations started in one behaviour

None == "None"

----------------------------------------------------------------------------
(* config.py: the accounts directory and the per-account .env files *)

\* file names are sequences of characters
Prefix == <<".", "e", "n", "v", ".">>

\* the entries of accounts_dir: four account files and three other entries
DirEntries ==
    { Prefix \o <<"d", "e", "v">>,
      Prefix \o <<"p", "r", "e", "p", "r", "o", "d">>,
      Prefix \o <<"p", "r", "o", "d">>,
      Prefix \o <<"b", "r", "o", "k", "e", "n">>,
      <<".", "e", "n", "v">>,
      <<"e", "n", "v", ".", "g", "h", "o", "s", "t">>,
      <<"R", "E", "A", "D", "M", "E">> }

\* an entry whose name starts anywhere
startswith_anything(filename, prefix) == TRUE

\* filename.startswith(prefix)
startswith(filename, prefix) ==
    /\ Len(filename) >= Len(prefix)
    /\ SubSeq(filename, 1, Len(prefix)) = prefix

\* the string a sequence of characters spells
RECURSIVE Str(_)
Str(chars) == IF chars = <<>> THEN "" ELSE Head(chars) \o Str(Tail(chars))

\* filename[len(".env."):] for the entries that start with ".env."
EnvFiles ==
    { Str(SubSeq(filename, Len(Prefix) + 1, Len(filename))) :
        filename \in {f \in DirEntries : startswith(f, Prefix)} }

\* names a caller may pass to switch_account
AccountNames == EnvFiles \cup {"ghost"}

\* content of .env.<name>; "broken" lacks the required elastic_api_key
EnvFile(name) ==
    CASE name = "dev"     -> [elastic_api_key |-> "key_dev",     elastic_org_id |-> None]
      [] name = "preprod" -> [elastic_api_key |-> "key_preprod", elastic_org_id |-> None]
      [] name = "prod"    -> [elastic_api_key |-> "key_prod",    elastic_org_id |-> "org_prod"]
      [] OTHER            -> [elastic_api_key |-> None,          elastic_org_id |-> None]

default_account == "dev"

\* os.environ without the two variables Settings reads
NoEnviron == [ELASTIC_API_KEY |-> None, ELASTIC_ORG_ID |-> None]

\* the values os.environ may hold for them when the process starts
Environs ==
    [ELASTIC_API_KEY : {None, "key_env"}, ELASTIC_ORG_ID : {None, "org_env"}]

\* available_accounts(): os.listdir raises when the directory cannot be
\* read, and the exception becomes the "error" entry of the result
available_accounts ==
    IF os.listdir = "ok"
    THEN [accounts |-> EnvFiles]
    ELSE [error |-> "Failed to list accounts"]

\* available_accounts().get("accounts", [])
accounts_or_empty ==
    IF "accounts" \in DOMAIN available_accounts THEN available_accounts.accounts ELSE {}

\* Settings(_env_file=path): pydantic-settings takes a field from the
\* process environment when it is set there, and from the file otherwise
Settings(environ, env_file) ==
    [elastic_api_key |-> IF environ.ELASTIC_API_KEY # None
                         THEN environ.ELASTIC_API_KEY ELSE env_file.elastic_api_key,
     elastic_org_id  |-> IF environ.ELASTIC_ORG_ID # None
                         THEN environ.ELASTIC_ORG_ID ELSE env_file.elastic_org_id]

\* the two messages of get_account_credentials
CouldNotLoad == "ValueError: could not load credentials"
NotFound == "ValueError: account not found"

\* Settings.get_account_credentials: the pair, or the ValueError it raises
\* (validation fails when elastic_api_key has no value)
get_account_credentials(account) ==
    LET temp_settings == Settings(os.environ, EnvFile(account)) IN
    IF account \in accounts_or_empty
    THEN IF temp_settings.elastic_api_key # None
         THEN [raised  |-> None,
               api_key |-> temp_settings.elastic_api_key,
               org_id  |-> temp_settings.elastic_org_id]
         ELSE [raised  |-> CouldNotLoad, api_key |-> None, org_id |-> None]
    ELSE [raised  |-> NotFound, api_key |-> None, org_id |-> None]

----------------------------------------------------------------------------
(* elastic_client.py: construction and switch_account *)

Authorization(api_key) == "ApiKey " \o api_key

\* ElasticCloudClient.__init__
ClientInit(account) ==
    [account    |-> account,
     api_key    |-> get_account_credentials(account).api_key,
     org_id     |-> get_account_credentials(account).org_id,
     headers    |-> Authorization(get_account_credentials(account).api_key),
     account_id |-> None]

\* a switch that names the new account before its credentials are resolved
switch_account_eager(c, account) ==
    LET cred == get_account_credentials(account) IN
    IF cred.raised # None
    THEN [c EXCEPT !.account = account, !.account_id = None]
    ELSE [account    |-> account,
          api_key    |-> cred.api_key,
          org_id     |-> cred.org_id,
          headers    |-> Authorization(cred.api_key),
          account_id |-> None]

\* a switch that forgets to replace the Authorization header
switch_account_stale_header(c, account) ==
    LET cred == get_account_credentials(account) IN
    IF cred.raised # None
    THEN c
    ELSE [account    |-> account,
          api_key    |-> cred.api_key,
          org_id     |-> cred.org_id,
          headers    |-> c.headers,
          account_id |-> None]

\* a switch that keeps the resolved account id
switch_account_keep_id(c, account) ==
    LET cred == get_account_credentials(account) IN
    IF cred.raised # None
    THEN c
    ELSE [account    |-> account,
          api_key    |-> cred.api_key,
          org_id     |-> cred.org_id,
          headers    |-> Authorization(cred.api_key),
          account_id |-> c.account_id]

\* ElasticCloudClient.switch_account: the fields after the call.  The tuple
\* assignment runs only after get_account_credentials has returned.
switch_account(c, account) ==
    LET cred == get_account_credentials(account) IN
    IF cred.raised # None
    THEN c
    ELSE [account    |-> account,
          api_key    |-> cred.api_key,
          org_id     |-> cred.org_id,
          headers    |-> Authorization(cred.api_key),
          account_id |-> None]

----------------------------------------------------------------------------
(* The provider, as the client sees it *)

\* what one GET can do: return a 2xx body, or raise in one of the three
\* ways _make_request / _make_billing_request distinguish
Outcomes == {"ok", "HTTPStatusError", "RequestError", "Exception"}

\* the account whose API key an Authorization header carries
KeyOwner(headers) ==
    CHOOSE a \in EnvFiles :
        /\ EnvFile(a).elastic_api_key # None
        /\ Authorization(EnvFile(a).elastic_api_key) = headers

\* the "id" field of the body of GET /api/v1/account under these headers
AccountIdOf(headers) == "id_" \o KeyOwner(headers)

----------------------------------------------------------------------------
(* Inputs of the domain operations *)

DeploymentIds == {"d1"}
OrgArgs == {None, "org_x"}
CostOrgs == {"org_prod", "org_x"}
InstanceIds == {"i1", "i2"}

\* a timezone-aware datetime: wall-clock day and hour, UTC offset in hours
DateTime(d, h, off) == [day |-> d, hour |-> h, off |-> off]

\* (start_date, end_date) pairs.  The first two denote the same UTC
\* interval in two timezones, the third a longer one.
DateRanges ==
    { <<DateTime(1, 10, 2),  DateTime(2, 1, 2)>>,
      <<DateTime(1, 8, 0),   DateTime(1, 23, 0)>>,
      <<DateTime(1, 8, 0),   DateTime(2, 8, 0)>> }

\* hours since the epoch of the model, the instant a datetime denotes
Instant(dt) == dt.day * 24 + dt.hour - dt.off

\* datetime.astimezone(ZoneInfo("UTC"))
astimezone_utc(dt) ==
    [day |-> Instant(dt) \div 24, hour |-> Instant(dt) % 24, off |-> 0]

\* datetime.isoformat(): date, hour and the UTC offset of the value
isoformat(dt) ==
    "D" \o ToString(dt.day) \o "T" \o ToString(dt.hour) \o ":00:00"
        \o (IF dt.off < 0 THEN "-" \o ToString(0 - dt.off) ELSE "+" \o ToString(dt.off))
        \o ":00"

\* start_date.isoformat() without the conversion to UTC
utc_iso_unconverted(dt) == isoformat(dt)

\* start_date.astimezone(ZoneInfo("UTC")).isoformat()
utc_iso(dt) == isoformat(astimezone_utc(dt))

----------------------------------------------------------------------------
(* alru_cache: the three decorated methods *)

CacheNames == {"_get_deployments_cached", "get_deployment", "_cached_billing_request"}

NoTtl == -1
deployments_ttl == 300
deployment_ttl == 300

\* a billing cache that expires like the deployment caches
ttl_everywhere(name) == deployments_ttl

\* caches that never expire
ttl_never(name) == NoTtl

\* the ttl argument of each @alru_cache decoration
ttl(name) ==
    CASE name = "_get_deployments_cached" -> deployments_ttl
      [] name = "get_deployment"          -> deployment_ttl
      [] OTHER                            -> NoTtl

\* the entry of a key whose coroutine has been created and not yet finished
PendingEntry(origin) ==
    [st |-> "pending", sent |-> FALSE, headers |-> None, gets |-> 0,
     val |-> None, at |-> -1, exp |-> NoTtl, origin |-> origin]

Has(name, key) == key \in DOMAIN cache[name]

\* cache[name] with key bound to entry / with key removed
Put(name, key, entry) ==
    [cache EXCEPT ![name] =
        [k \in DOMAIN cache[name] \cup {key} |->
            IF k = key THEN entry ELSE cache[name][k]]]

Pop(name, key) ==
    [cache EXCEPT ![name] = [k \in DOMAIN cache[name] \ {key} |-> cache[name][k]]]

\* loop.call_later(ttl, cache.pop, key): the entries whose timer has fired at t
Expire(c, t) ==
    [n \in CacheNames |->
        [k \in {x \in DOMAIN c[n] :
                    ~(c[n][x].st = "done" /\ c[n][x].exp # NoTtl /\ c[n][x].exp <= t)}
            |-> c[n][k]]]

----------------------------------------------------------------------------
(* Call records *)

Slots == 1..MaxInflight

Idle ==
    [op |-> "idle", arg |-> <<>>, pc |-> "idle", name |-> None, key |-> <<>>,
     headers |-> None, target |-> None, res |-> None, val |-> None, wire |-> None,
     gets |-> 0, epoch |-> 0, first |-> FALSE, age |-> -1, equiv |-> FALSE,
     joined |-> FALSE, error |-> None, cause |-> None, instance |-> None,
     retry |-> FALSE]

\* a call of op(arg) that starts in the current state
NewCall(op, arg) ==
    [Idle EXCEPT !.op = op, !.arg = arg, !.epoch = epoch]

FreeSlots == {s \in Slots : calls[s].op = "idle"}
FreeSlot == CHOOSE s \in FreeSlots : \A t \in FreeSlots : s <= t

Busy == (\E s \in Slots : calls[s].op # "idle")
            \/ (\E n \in CacheNames : \E k \in DOMAIN cache[n] : cache[n][k].st = "pending")

Min(a, b) == IF a < b THEN a ELSE b

----------------------------------------------------------------------------
(* elastic_client.py: the two gateways *)

\* a gateway that sends the GET a second time when the first one failed
make_request_retry(outcome, gets) ==
    [again |-> (outcome # "ok" /\ gets < 2), raised |-> outcome]

\* a gateway that replaces the failure by one of its own
make_billing_request_wrap(outcome, gets) ==
    [again |-> FALSE, raised |-> IF outcome = "ok" THEN "ok" ELSE "GatewayError"]

\* _make_request after its GET had `outcome`: the body is returned, or the
\* exception is logged and re-raised; the GET is not repeated
make_request(outcome, gets) ==
    [again |-> FALSE, raised |-> outcome]

\* _make_billing_request: the same code against billing_base_url
make_billing_request(outcome, gets) ==
    [again |-> FALSE, raised |-> outcome]

\* the gateway a cached coroutine ends in
gateway_of(name, outcome, gets) ==
    IF name = "_cached_billing_request"
    THEN make_billing_request(outcome, gets)
    ELSE make_request(outcome, gets)

\* f"{org_id or self._account_id}" in get_organization(_members)
org_or_account_id(org_id) ==
    IF org_id # None THEN org_id ELSE self.account_id

\* an endpoint that does not name the organization
instances_endpoint_without_org(organization_id) ==
    "/api/v2/billing/costs/instances"

\* the endpoints of the three cost queries
instances_endpoint(organization_id) ==
    "/api/v2/billing/organizations/" \o organization_id \o "/costs/instances"

instance_endpoint(organization_id, instance_id) ==
    "/api/v2/billing/organizations/" \o organization_id \o "/costs/instances/"
        \o instance_id \o "/items"

items_endpoint(organization_id) ==
    "/api/v2/billing/organizations/" \o organization_id \o "/costs/items"

\* the arguments _cached_billing_request is called with: the cache key
billing_key(endpoint, start_date, end_date) ==
    <<endpoint, utc_iso(start_date), utc_iso(end_date)>>

\* the from/to parameters _cached_billing_request puts on the wire
billing_params(key) == [from |-> key[2], to |-> key[3]]

----------------------------------------------------------------------------
(* Initial state: server.py builds one client for settings.default_account. *)
(* The credentials come from the account files alone: the environment of    *)
(* the process sets neither variable (InitConfig starts from the others).   *)

Init ==
    /\ os = [environ |-> NoEnviron, listdir |-> "ok"]
    /\ self = ClientInit(default_account)
    /\ cache = [n \in CacheNames |-> <<>>]
    /\ calls = [s \in Slots |-> Idle]
    /\ now = 0
    /\ epoch = 0
    /\ hist = [started |-> 0, serial |-> TRUE, raced |-> FALSE,
               info_calls |-> 0, info_gets |-> 0,
               fetched |-> [n \in CacheNames |-> <<>>]]
    /\ last = {}

\* a step in which no call returns
NoReturn == last' = {}

----------------------------------------------------------------------------
(* switch_account and the clock *)

\* str(e) of the ValueError switch_account raises, whatever the exception
\* of get_account_credentials it was raised from
switch_account_error(account, cause) == "Could not switch to account " \o account

\* ElasticCloudClient.switch_account(account); it raises ValueError when
\* get_account_credentials raised
SwitchAccount(account) ==
    LET cred == get_account_credentials(account)
        ok == cred.raised = None
    IN
    /\ ok => epoch < MaxSwitches
    /\ self' = switch_account(self, account)
    /\ epoch' = IF ok THEN epoch + 1 ELSE epoch
    /\ hist' = IF ok
               THEN [hist EXCEPT !.raced = Busy, !.serial = @ /\ ~Busy,
                                 !.info_calls = 0, !.info_gets = 0]
               ELSE hist
    /\ last' = {[NewCall("switch_account", <<account>>) EXCEPT
                    !.pc = "done", !.res = IF ok THEN "ok" ELSE "ValueError",
                    !.cause = cred.raised,
                    !.error = IF ok THEN None
                              ELSE switch_account_error(account, cred.raised)]}
    /\ UNCHANGED <<os, cache, calls, now>>

TickStep == deployments_ttl \div 2

\* time passes; the timers of the entries that have reached their ttl fire
Tick ==
    /\ now < MaxTicks * TickStep
    /\ now' = now + TickStep
    /\ cache' = Expire(cache, now + TickStep)
    /\ NoReturn
    /\ UNCHANGED <<os, self, calls, epoch, hist>>

----------------------------------------------------------------------------
(* config.py seen from outside: resolution, listing, the directory *)

\* the process starts with any of the environments; the client is built
\* from what the default account resolves to in it
InitConfig ==
    /\ os \in [environ : Environs, listdir : {"ok"}]
    /\ self = ClientInit(default_account)
    /\ cache = [n \in CacheNames |-> <<>>]
    /\ calls = [s \in Slots |-> Idle]
    /\ now = 0
    /\ epoch = 0
    /\ hist = [started |-> 0, serial |-> TRUE, raced |-> FALSE,
               info_calls |-> 0, info_gets |-> 0,
               fetched |-> [n \in CacheNames |-> <<>>]]
    /\ last = {}

\* settings.get_account_credentials(account), called on its own
GetAccountCredentials(account) ==
    LET cred == get_account_credentials(account) IN
    /\ last' = {[NewCall("get_account_credentials", <<account>>) EXCEPT
                    !.pc = "done",
                    !.res = IF cred.raised = None THEN "ok" ELSE "ValueError",
                    !.error = cred.raised,
                    !.val = cred.api_key,
                    !.target = cred.org_id]}
    /\ UNCHANGED <<os, self, cache, calls, now, epoch, hist>>

\* tool list_accounts(): the result of available_accounts()
ToolListAccounts ==
    /\ last' = {[NewCall("tool:list_accounts", <<>>) EXCEPT
                    !.pc = "done", !.res = "ok", !.val = available_accounts]}
    /\ UNCHANGED <<os, self, cache, calls, now, epoch, hist>>

\* the accounts directory becomes unreadable (removed, permissions changed)
DirectoryFails ==
    /\ os.listdir = "ok"
    /\ os' = [os EXCEPT !.listdir = "OSError"]
    /\ NoReturn
    /\ UNCHANGED <<self, cache, calls, now, epoch, hist>>

\* the accounts directory is readable again
DirectoryRestored ==
    /\ os.listdir = "OSError"
    /\ os' = [os EXCEPT !.listdir = "ok"]
    /\ NoReturn
    /\ UNCHANGED <<self, cache, calls, now, epoch, hist>>

----------------------------------------------------------------------------
(* Operations that are not cached *)

Count(n) == Min(n + 1, 2)

\* one more client operation has been started; the use of the client stays
\* serial as long as no operation starts while another one is suspended
Started(h) == [h EXCEPT !.started = @ + 1, !.serial = @ /\ ~Busy]

\* headers that were copied when the client was constructed
request_headers_of_init(c) == ClientInit(default_account).headers

\* client.get(url, headers=self.headers, ...): the headers of the moment
request_headers(c) == c.headers

\* the coroutine suspends in _make_request: self.headers is read when the
\* GET is built, before the first await on the network
Suspend(rec) ==
    /\ FreeSlots # {}
    /\ calls' = [calls EXCEPT ![FreeSlot] =
                    [rec EXCEPT !.pc = "net", !.headers = request_headers(self),
                                !.gets = 1]]
    /\ NoReturn
    /\ UNCHANGED <<os, self, cache, now, epoch>>

\* get_account_info asks the provider whatever it already knows
account_id_is_missing_always(c) == TRUE

\* get_account_info: "if self._account_id is None"
account_id_is_missing(c) == c.account_id = None

\* ElasticCloudClient.get_account_info, up to its await (or its return)
GetAccountInfo ==
    LET rec == [NewCall("get_account_info", <<>>) EXCEPT !.first = (hist.info_calls = 0)] IN
    /\ hist.started < MaxCalls
    /\ IF account_id_is_missing(self)
       THEN /\ Suspend(rec)
            /\ hist' = [Started(hist) EXCEPT !.info_calls = Count(@), !.info_gets = Count(@)]
       ELSE /\ last' = {[rec EXCEPT !.pc = "done", !.res = "ok", !.val = self.account_id]}
            /\ hist' = [Started(hist) EXCEPT !.info_calls = Count(@)]
            /\ UNCHANGED <<os, self, cache, calls, now, epoch>>

\* ElasticCloudClient.get_organizations
GetOrganizations ==
    /\ hist.started < MaxCalls
    /\ Suspend(NewCall("get_organizations", <<>>))
    /\ hist' = Started(hist)

\* ElasticCloudClient.get_organization(org_id)
GetOrganization(org_id) ==
    /\ hist.started < MaxCalls
    /\ Suspend([NewCall("get_organization", <<org_id>>) EXCEPT
                    !.target = org_or_account_id(org_id)])
    /\ hist' = Started(hist)

\* ElasticCloudClient.get_organization_members(org_id)
GetOrganizationMembers(org_id) ==
    /\ hist.started < MaxCalls
    /\ Suspend([NewCall("get_organization_members", <<org_id>>) EXCEPT
                    !.target = org_or_account_id(org_id)])
    /\ hist' = Started(hist)

\* an id that is also taken as the organization of the account
store_account_id_as_org(c, id) == [c EXCEPT !.account_id = id, !.org_id = id]

\* get_account_info: self._account_id = result.get("id")
store_account_id(c, id) == [c EXCEPT !.account_id = id]

\* the GET of a suspended call completes: _make_request returns or raises,
\* and the coroutine runs to its end
HttpResponse(s, outcome) ==
    LET c == calls[s]
        g == make_request(outcome, c.gets)
        info == c.op = "get_account_info"
    IN
    /\ c.pc = "net"
    /\ IF g.again
       THEN /\ calls' = [calls EXCEPT ![s].gets = c.gets + 1]
            /\ hist' = IF info THEN [hist EXCEPT !.info_gets = Count(@)] ELSE hist
            /\ NoReturn
            /\ UNCHANGED <<os, self, cache, now, epoch>>
       ELSE /\ calls' = [calls EXCEPT ![s] = Idle]
            /\ self' = IF info /\ g.raised = "ok"
                       THEN store_account_id(self, AccountIdOf(c.headers))
                       ELSE self
            /\ last' = {[c EXCEPT
                          !.pc = "done", !.res = g.raised, !.wire = outcome,
                          !.val = IF g.raised # "ok" THEN None
                                  ELSE IF info THEN self'.account_id
                                  ELSE KeyOwner(c.headers)]}
            /\ UNCHANGED <<os, cache, now, epoch, hist>>

----------------------------------------------------------------------------
(* Operations behind alru_cache *)

\* seconds since the latest successful fetch of this key, -1 if there was none
Age(name, key) ==
    IF key \in DOMAIN hist.fetched[name] THEN now - hist.fetched[name][key] ELSE -1

\* a finished billing entry was fetched for the same endpoint and for dates
\* that denote the same two instants
EquivalentCached(arg) ==
    \E k \in DOMAIN cache["_cached_billing_request"] :
        LET e == cache["_cached_billing_request"][k] IN
        /\ e.st = "done"
        /\ e.origin.arg[1] = arg[1]
        /\ Instant(e.origin.arg[2]) = Instant(arg[2])
        /\ Instant(e.origin.arg[3]) = Instant(arg[3])

\* a cache in which every call that finds no result starts a task of its own
joins_never(name, key) == FALSE

\* a call that finds the entry of its key pending awaits the future of that
\* entry instead of starting a task
joins(name, key) == Has(name, key)

\* the call comes right after a call with the same arguments has raised
AfterFailure(name, key) ==
    \E q \in last : q.name = name /\ q.key = key /\ q.res \notin {"ok", None}

\* the decorated method is called: a finished entry is returned at once, a
\* pending one is awaited, and a miss creates the entry and the task that
\* will run the method body
alru_call(rec, name, key) ==
    LET r == [rec EXCEPT !.name = name, !.key = key, !.age = Age(name, key),
                         !.retry = AfterFailure(name, key)]
    IN
    /\ hist.started < MaxCalls
    /\ hist' = Started(hist)
    /\ IF Has(name, key) /\ cache[name][key].st = "done"
       THEN /\ last' = {[r EXCEPT !.pc = "done", !.res = "ok",
                                  !.headers = cache[name][key].headers,
                                  !.val = cache[name][key].val]}
            /\ UNCHANGED <<os, self, cache, calls, now, epoch>>
       ELSE /\ FreeSlots # {}
            /\ calls' = [calls EXCEPT ![FreeSlot] =
                           [r EXCEPT !.pc = "wait", !.joined = joins(name, key)]]
            /\ cache' = IF joins(name, key) THEN cache
                        ELSE Put(name, key,
                                 PendingEntry([arg |-> rec.arg, op |-> rec.op,
                                               target |-> rec.target,
                                               instance |-> rec.instance]))
            /\ NoReturn
            /\ UNCHANGED <<os, self, now, epoch>>

\* ElasticCloudClient.get_deployments: the key is the org_id of the moment
GetDeployments ==
    alru_call([NewCall("get_deployments", <<>>) EXCEPT !.target = self.org_id],
              "_get_deployments_cached", <<self.org_id>>)

\* ElasticCloudClient.get_deployment(deployment_id)
GetDeployment(deployment_id) ==
    alru_call(NewCall("get_deployment", <<deployment_id>>),
              "get_deployment", <<deployment_id>>)

\* a cost query on `endpoint`
CostQuery(op, endpoint, organization_id, instance_id, range) ==
    LET arg == <<endpoint, range[1], range[2]>> IN
    alru_call([NewCall(op, arg) EXCEPT !.target = organization_id,
                                       !.instance = instance_id,
                                       !.equiv = EquivalentCached(arg)],
              "_cached_billing_request", billing_key(endpoint, range[1], range[2]))

\* ElasticCloudClient.get_instances_costs(start_date, end_date, organization_id)
GetInstancesCosts(range, organization_id) ==
    CostQuery("get_instances_costs", instances_endpoint(organization_id),
              organization_id, None, range)

\* ElasticCloudClient.get_instance_costs(start_date, end_date, organization_id, instance_id)
GetInstanceCosts(range, organization_id, instance_id) ==
    CostQuery("get_instance_costs", instance_endpoint(organization_id, instance_id),
              organization_id, instance_id, range)

\* ElasticCloudClient.get_items_costs(start_date, end_date, organization_id)
GetItemsCosts(range, organization_id) ==
    CostQuery("get_items_costs", items_endpoint(organization_id),
              organization_id, None, range)

\* the task of a pending entry starts: the method body runs down to the GET
\* of its gateway, which reads self.headers now
TaskSend(name, key) ==
    /\ Has(name, key)
    /\ cache[name][key].st = "pending"
    /\ ~cache[name][key].sent
    /\ cache' = [cache EXCEPT ![name][key] =
                    [@ EXCEPT !.sent = TRUE, !.headers = request_headers(self),
                              !.gets = 1]]
    /\ NoReturn
    /\ UNCHANGED <<os, self, calls, now, epoch, hist>>

\* a cache that keeps the entry of a task that raised
task_done_keeps_failure(name, key, e, ok) ==
    Put(name, key,
        [e EXCEPT !.st = "done", !.val = IF ok THEN KeyOwner(e.headers) ELSE None,
                  !.at = now, !.exp = NoTtl])

\* the cache after the task of entry e has finished: a result is kept in
\* the entry and, with a ttl, its timer is started; an exception removes
\* the entry
task_done(name, key, e, ok) ==
    IF ok
    THEN Put(name, key,
             [e EXCEPT !.st = "done", !.val = KeyOwner(e.headers), !.at = now,
                       !.exp = IF ttl(name) = NoTtl THEN NoTtl ELSE now + ttl(name)])
    ELSE Pop(name, key)

\* the GET of a task completes.  A result is kept in the entry and, with a
\* ttl, its timer is started; an exception removes the entry.  The callers
\* that await the entry resume with the result or the exception.
TaskResponse(name, key, outcome) ==
    LET e == cache[name][key]
        g == gateway_of(name, outcome, e.gets)
        ok == g.raised = "ok"
        waits(s) == calls[s].pc = "wait" /\ calls[s].name = name /\ calls[s].key = key
    IN
    /\ Has(name, key)
    /\ e.st = "pending"
    /\ e.sent
    /\ IF g.again
       THEN /\ cache' = [cache EXCEPT ![name][key].gets = e.gets + 1]
            /\ NoReturn
            /\ UNCHANGED <<os, self, calls, now, epoch, hist>>
       ELSE /\ cache' = task_done(name, key, e, ok)
            /\ hist' = IF ok
                       THEN [hist EXCEPT !.fetched[name] =
                                [k \in DOMAIN @ \cup {key} |-> IF k = key THEN now ELSE @[k]]]
                       ELSE hist
            /\ calls' = [s \in Slots |-> IF waits(s) THEN Idle ELSE calls[s]]
            /\ last' = {[calls[s] EXCEPT
                            !.pc = "done", !.res = g.raised, !.wire = outcome,
                            !.headers = e.headers,
                            !.val = IF ok THEN KeyOwner(e.headers) ELSE None,
                            !.gets = IF calls[s].joined THEN 0 ELSE e.gets] :
                         s \in {t \in Slots : waits(t)}}
            /\ UNCHANGED <<os, self, now, epoch>>

----------------------------------------------------------------------------
(* server.py: the cost tools *)

\* positional parameters (after self) of the client's cost queries
Parameters(op) ==
    CASE op = "get_items_costs"     -> <<"start_date", "end_date", "organization_id">>
      [] op = "get_instances_costs" -> <<"start_date", "end_date", "organization_id">>
      [] op = "get_instance_costs"  ->
            <<"start_date", "end_date", "organization_id", "instance_id">>

\* a tool calls elastic_client.<op>(*passed) inside try/except Exception and
\* returns the error result when the call raises.  Every cost tool passes
\* one argument less than the method requires, so binding the arguments
\* raises TypeError before the method body runs.
ToolCost(op, passed) ==
    /\ Len(passed) < Len(Parameters(op))
    /\ last' = {[NewCall("tool:" \o op, passed) EXCEPT !.pc = "done", !.res = "TypeError"]}
    /\ UNCHANGED <<os, self, cache, calls, now, epoch, hist>>

\* tool get_items_costs(start_date, end_date)
ToolGetItemsCosts(range) == ToolCost("get_items_costs", <<range[1], range[2]>>)

\* tool get_instances_costs(start_date, end_date)
ToolGetInstancesCosts(range) == ToolCost("get_instances_costs", <<range[1], range[2]>>)

\* tool get_instance_costs(start_date, end_date, instance_id)
ToolGetInstanceCosts(range, instance_id) ==
    ToolCost("get_instance_costs", <<range[1], range[2], instance_id>>)

\* tool get_environment_cost(start_date, end_date, instance_id): the same
\* call as get_instance_costs makes, outside any try
ToolGetEnvironmentCost(range, instance_id) ==
    LET passed == <<range[1], range[2], instance_id>> IN
    /\ Len(passed) < Len(Parameters("get_instance_costs"))
    /\ last' = {[NewCall("tool:get_environment_cost", passed) EXCEPT
                    !.pc = "done", !.res = "TypeError"]}
    /\ UNCHANGED <<os, self, cache, calls, now, epoch, hist>>

\* tool get_current_account(): the account and org_id fields (the result
\* also carries the first ten characters of api_key)
ToolGetCurrentAccount ==
    /\ last' = {[NewCall("tool:get_current_account", <<>>) EXCEPT
                    !.pc = "done", !.res = "ok",
                    !.val = [account |-> self.account, org_id |-> self.org_id]]}
    /\ UNCHANGED <<os, self, cache, calls, now, epoch, hist>>

\* the tool a returned call belongs to: the tools get_deployments,
\* get_deployment and switch_account return what the client method of the
\* same name returned or raised
ToolOps ==
    {"get_deployments", "get_deployment", "switch_account",
     "tool:get_items_costs", "tool:get_instances_costs", "tool:get_instance_costs",
     "tool:get_environment_cost", "tool:get_current_account", "tool:list_accounts"}

\* the tools whose body is inside try / except Exception
TryExcept ==
    {"get_deployments", "get_deployment", "switch_account",
     "tool:get_items_costs", "tool:get_instances_costs", "tool:get_instance_costs"}

\* what the tool of a returned call hands to the caller of the server: the
\* exception that leaves the tool, or the "error" entry of the returned
\* dict and the arguments the dict repeats
ToolResult(r) ==
    IF r.res = "ok"
    THEN [raised |-> None, error |-> None, args |-> r.arg]
    ELSE IF r.op \in TryExcept
    THEN [raised |-> None,
          error |-> "Failed: " \o (IF r.error # None THEN r.error ELSE r.res),
          args |-> r.arg]
    ELSE [raised |-> r.res, error |-> None, args |-> <<>>]

----------------------------------------------------------------------------------------------------------------------------------------
(* The client under any interleaving of calls.  The operations are grouped  *)
(* by the state they share: the resolved account id, the two deployment     *)
(* caches, the billing cache.  Every group runs against switch_account.     *)

Switches == \E account \in AccountNames : SwitchAccount(account)

AccountOps ==
    \/ GetAccountInfo
    \/ GetOrganizations
    \/ \E org_id \in OrgArgs : GetOrganization(org_id)
    \/ \E org_id \in OrgArgs : GetOrganizationMembers(org_id)
    \/ \E s \in Slots, outcome \in Outcomes : HttpResponse(s, outcome)

DeploymentOps ==
    \/ GetDeployments
    \/ \E d \in DeploymentIds : GetDeployment(d)

\* the cost queries for the organizations of `orgs` and the instances of
\* `instances`
CostOps(orgs, instances) ==
    \/ \E r \in DateRanges, o \in orgs : GetInstancesCosts(r, o)
    \/ \E r \in DateRanges, o \in orgs, i \in instances : GetInstanceCosts(r, o, i)
    \/ \E r \in DateRanges, o \in orgs : GetItemsCosts(r, o)

CostTools ==
    \/ \E r \in DateRanges : ToolGetItemsCosts(r)
    \/ \E r \in DateRanges : ToolGetInstancesCosts(r)
    \/ \E r \in DateRanges, i \in InstanceIds : ToolGetInstanceCosts(r, i)

CacheSteps ==
    \/ \E n \in CacheNames : \E k \in DOMAIN cache[n] : TaskSend(n, k)
    \/ \E n \in CacheNames : \E k \in DOMAIN cache[n] :
            \E outcome \in Outcomes : TaskResponse(n, k, outcome)

NextAccount == Switches \/ AccountOps
NextServer == Switches \/ AccountOps \/ CostTools
NextDeployments == Switches \/ Tick \/ DeploymentOps \/ CacheSteps
\* the billing cache across organizations and instances
NextBilling == CostOps(CostOrgs, InstanceIds) \/ CacheSteps

\* the billing cache against the clock; time does not depend on the
\* organization or the instance, so one of each is queried
NextBillingTtl == Tick \/ CostOps({"org_prod"}, {"i1"}) \/ CacheSteps

SpecAccount == Init /\ [][NextAccount]_vars
SpecServer == Init /\ [][NextServer]_vars
SpecDeployments == Init /\ [][NextDeployments]_vars
SpecBilling == Init /\ [][NextBilling]_vars
SpecBillingTtl == Init /\ [][NextBillingTtl]_vars

\* the tools of server.py
NextTools ==
    \/ Switches
    \/ DeploymentOps
    \/ CacheSteps
    \/ CostTools
    \/ \E r \in DateRanges, i \in InstanceIds : ToolGetEnvironmentCost(r, i)
    \/ ToolGetCurrentAccount
    \/ ToolListAccounts

SpecTools == Init /\ [][NextTools]_vars

\* credential resolution, account listing and switching, in any process
\* environment and with a directory that may stop being readable
NextConfig ==
    \/ Switches
    \/ \E account \in AccountNames : GetAccountCredentials(account)
    \/ ToolListAccounts
    \/ DirectoryFails
    \/ DirectoryRestored

SpecConfig == InitConfig /\ [][NextConfig]_vars

\* every read of the client against switch_account
NextReads ==
    \/ Switches
    \/ AccountOps
    \/ DeploymentOps
    \/ CostOps({"org_prod"}, {"i1"})
    \/ CacheSteps

SpecReads == Init /\ [][NextReads]_vars

\* every operation that reaches a gateway, without switches and without time
NextGateways == AccountOps \/ DeploymentOps \/ CostOps({"org_prod"}, {"i1"}) \/ CacheSteps
SpecGateways == Init /\ [][NextGateways]_vars

----------------------------------------------------------------------------
(* Properties *)

Failures == Outcomes \ {"ok"}

\* the credentials the accounts directory holds for the current account
Current == get_account_credentials(self.account)

\* C2: a switch_account that raises (unknown account, or credentials that
\* cannot be loaded) leaves every field of the client as it was.
C2_FailedSwitchKeepsState ==
    [][(\E r \in last' : r.op = "switch_account" /\ r.res = "ValueError")
            => self' = self]_vars

\* a switch to the account without API key has failed on a client that had
\* been switched to prod and had resolved its account id
C2_Witness ==
    /\ \E r \in last : r.op = "switch_account" /\ r.res = "ValueError"
                        /\ r.arg = <<"broken">>
    /\ self.account = "prod"
    /\ self.account_id = "id_prod"

C4_SwitchAtomic ==
    /\ Current.raised = None
    /\ self.api_key = Current.api_key
    /\ self.org_id = Current.org_id
    /\ self.headers = "ApiKey " \o self.api_key

\* a switch to prod has returned while another call is suspended on its GET
C4_Witness ==
    /\ \E r \in last : r.op = "switch_account" /\ r.res = "ok"
    /\ self.account = "prod"
    /\ \E s \in Slots : calls[s].pc = "net" /\ calls[s].headers = "ApiKey key_dev"

\* the organization the precedence of the specification selects: the
\* explicit argument, else the org_id of the account, else the account id
OrgByPrecedence(org_id) ==
    IF org_id # None THEN org_id
    ELSE IF self.org_id # None THEN self.org_id
    ELSE self.account_id

\* C8: a request scoped to an organization targets the explicit argument,
\* else the org_id of the current account, else the resolved account id, and
\* never None; the cost tools, called without an organization, reach the
\* provider the same way.
C8_OrgPrecedence ==
    /\ \A s \in Slots :
          (/\ calls[s].op \in {"get_organization", "get_organization_members"}
           /\ calls[s].epoch = epoch)
          => /\ calls[s].target # None
             /\ calls[s].target = OrgByPrecedence(calls[s].arg[1])
    /\ \A r \in last :
          r.op \in {"tool:get_items_costs", "tool:get_instances_costs",
                    "tool:get_instance_costs"}
          => r.res # "TypeError"

C10_OneGetNoRetry ==
    /\ \A s \in Slots : calls[s].pc = "net" => calls[s].gets = 1
    /\ \A n \in CacheNames : \A k \in DOMAIN cache[n] :
            (cache[n][k].st = "pending" /\ cache[n][k].sent) => cache[n][k].gets = 1
    /\ \A r \in last : r.wire # None =>
            /\ r.res = r.wire
            /\ ~r.joined => r.gets = 1
            /\ r.wire \in Failures => r.val = None

\* a cost query has raised the HTTP error of its only GET after a call on
\* the general API had raised a transport error
C10_Witness ==
    /\ \E r \in last : /\ r.op = "get_items_costs"
                       /\ r.wire = "HTTPStatusError" /\ r.res = "HTTPStatusError"
                       /\ r.gets = 1
    /\ hist.started = 2
    /\ \A s \in Slots : calls[s].op = "idle"

\* the caches whose key carries no organization: get_deployment(id), and
\* the listing when the account has no org_id
KeyWithoutOrg(r) ==
    \/ r.name = "get_deployment"
    \/ r.name = "_get_deployments_cached" /\ r.key = <<None>>

\* C1: after switch_account, a read whose cache key carries no organization
\* never returns data fetched under another account, because the switch
\* discards the entries that are not parameterized by organization.
C1_NoStaleDataAfterSwitch ==
    \A r \in last :
        (/\ r.name \in CacheNames
         /\ KeyWithoutOrg(r)
         /\ r.res = "ok"
         /\ r.epoch = epoch
         /\ hist.serial)
        => r.val = self.account

\* C5: for the caches with a ttl of 300 s, a call made less than 300 s after
\* the latest successful fetch of the same arguments sends no request, and a
\* call made when there is no such fetch, or 300 s or more after it, sends
\* exactly one (unless it joins a fetch that is already on its way).
C5_TtlWindow ==
    \A r \in last :
        (r.name \in {"_get_deployments_cached", "get_deployment"}) =>
            /\ (r.age # -1 /\ r.age < deployments_ttl) => (r.gets = 0 /\ r.res = "ok")
            /\ ((r.age = -1 \/ r.age >= deployments_ttl) /\ ~r.joined) => r.gets = 1

\* the listing is fetched again, with one request, exactly 300 s after the
\* fetch that had filled the cache
C5_Witness ==
    \E r \in last :
        /\ r.op = "get_deployments"
        /\ r.age = deployments_ttl
        /\ r.gets = 1
        /\ r.res = "ok"
        /\ hist.started = 2

\* C6 as stated: a cost query repeated after the time-to-live has elapsed is
\* fetched again
C6_CostQueriesExpire ==
    \A r \in last :
        (/\ r.name = "_cached_billing_request"
         /\ r.age >= deployments_ttl
         /\ ~r.joined)
        => r.gets = 1

\* C6: the billing cache has no time-to-live: once a cost query has been
\* fetched, a call with the same arguments sends no request, whatever time
\* has passed, and no billing entry carries an expiry.
C6_CostQueriesNeverExpire ==
    /\ \A r \in last :
          (r.name = "_cached_billing_request" /\ r.age # -1)
          => (r.gets = 0 /\ r.res = "ok")
    /\ \A k \in DOMAIN cache["_cached_billing_request"] :
          cache["_cached_billing_request"][k].exp = NoTtl

\* a cost query is answered from the cache 300 s after it was fetched
C6_Witness ==
    \E r \in last :
        /\ r.op = "get_instances_costs"
        /\ r.age >= deployments_ttl
        /\ r.gets = 0
        /\ r.res = "ok"

\* C7: date ranges that denote the same two instants give the same from/to
\* parameters and the same cache key on every cost endpoint, and a cost
\* query whose interval has been fetched in another timezone is a cache hit.
C7_SameIntervalSameKey ==
    \A r \in last :
        r.name = "_cached_billing_request" =>
            /\ \A d \in DateRanges :
                  (Instant(d[1]) = Instant(r.arg[2]) /\ Instant(d[2]) = Instant(r.arg[3]))
                  => /\ billing_key(r.arg[1], d[1], d[2]) = r.key
                     /\ billing_params(billing_key(r.arg[1], d[1], d[2]))
                            = billing_params(r.key)
            /\ r.equiv => (r.gets = 0 /\ r.res = "ok")

\* a cost query given in UTC+2 has been answered from the entry that the
\* same interval, given in UTC, had created
C7_Witness ==
    \E r \in last :
        /\ r.op = "get_instance_costs"
        /\ r.equiv /\ r.gets = 0 /\ r.res = "ok"
        /\ r.arg[2].off = 2
        /\ cache["_cached_billing_request"][r.key].origin.arg[2].off = 0
        /\ cache["_cached_billing_request"][r.key].origin.arg[1] = r.arg[1]

\* C11: the credentials get_account_credentials returns for an account are
\* the api key and the org id of that account's own file, whatever else the
\* process holds.
C11_CredentialsIsolated ==
    \A r \in last :
        (r.op = "get_account_credentials" /\ r.res = "ok")
        => /\ r.val = EnvFile(r.arg[1]).elastic_api_key
           /\ r.target = EnvFile(r.arg[1]).elastic_org_id

\* the two ways resolution fails
ResolveFailures == {NotFound, CouldNotLoad}

\* C13: resolution fails as "not found" exactly when the name is not among
\* the listed accounts and as "could not load" exactly when the account's
\* file is there and lacks the API key, and the error a failed
\* switch_account raises tells its caller which of the two it was.
C13_DistinguishableFailures ==
    \A r \in last :
        r.op = "switch_account" =>
            /\ r.cause = NotFound <=> r.arg[1] \notin accounts_or_empty
            /\ r.cause = CouldNotLoad <=>
                    (/\ r.arg[1] \in accounts_or_empty
                     /\ EnvFile(r.arg[1]).elastic_api_key = None)
            /\ r.res # "ok" =>
                    \A other \in ResolveFailures \ {r.cause} :
                        r.error # switch_account_error(r.arg[1], other)

\* C14: list_accounts always returns: the error value when the directory
\* cannot be read, and otherwise exactly the names that follow ".env." in
\* the entries that start with it.
C14_ListAccountsFailsSoft ==
    \A r \in last :
        r.op = "tool:list_accounts" =>
            /\ r.res = "ok"
            /\ os.listdir # "ok" => r.val = [error |-> "Failed to list accounts"]
            /\ os.listdir = "ok" =>
                    r.val = [accounts |-> {"dev", "preprod", "prod", "broken"}]

\* the accounts have been listed while the directory could not be read,
\* after a switch to prod that had found it readable
C14_Witness ==
    /\ \E r \in last : r.op = "tool:list_accounts" /\ "error" \in DOMAIN r.val
    /\ os.listdir = "OSError"
    /\ self.account = "prod"

\* C12: whatever the client call of a tool raises, the tool returns a
\* result with an error description and the arguments it was called with;
\* no exception leaves a tool.
C12_ToolsCatchAllErrors ==
    \A r \in last :
        r.op \in ToolOps =>
            /\ ToolResult(r).raised = None
            /\ r.res # "ok" => /\ ToolResult(r).error # None
                               /\ ToolResult(r).args = r.arg

\* C15: in every state, also when switch_account has run while a
\* get_account_info call was waiting for its response, a resolved account id
\* is the id of the account whose credentials the client holds, and so is
\* every id get_account_info returns.
C15_AccountIdOfCurrentAccount ==
    /\ self.account_id # None => self.account_id = AccountIdOf(self.headers)
    /\ \A r \in last :
          (r.op = "get_account_info" /\ r.res = "ok")
          => r.val = AccountIdOf(self.headers)

\* the reads of the two deployment caches
DeploymentCaches == {"_get_deployments_cached", "get_deployment"}

\* C16: a deployment read takes its cache key when it is called and its
\* Authorization header when its request is built, so a switch_account
\* that runs in between gives a request with the key of the old account and
\* the header of the new one.  A read that no switch overlaps is sent with
\* the header and, for the listing, the org_id of the current account; what
\* a read fetched is stored under its key, and a later call with that key
\* is served that entry whatever the current account is.
C16_ReadRacesWithSwitch ==
    \A r \in last :
        (r.name \in DeploymentCaches /\ r.res = "ok") =>
            /\ (r.gets = 1 /\ r.epoch = epoch) =>
                    /\ r.headers = Authorization(self.api_key)
                    /\ r.op = "get_deployments" => r.key = <<self.org_id>>
            /\ r.gets = 1 =>
                    /\ Has(r.name, r.key)
                    /\ cache[r.name][r.key].st = "done"
                    /\ cache[r.name][r.key].headers = r.headers
                    /\ cache[r.name][r.key].val = KeyOwner(r.headers)
            /\ (r.gets = 0 /\ ~r.joined) =>
                    /\ r.val = cache[r.name][r.key].val
                    /\ r.headers = cache[r.name][r.key].headers

\* two reads were called under dev and a switch to prod ran before either
\* had its response: get_deployment was sent before the switch, with the
\* key of dev, and the listing after it, with the key of prod and the org_id
\* of dev (none); both results are in the cache while the account is prod
C16_Witness ==
    /\ self.account = "prod"
    /\ hist.raced
    /\ Has("get_deployment", <<"d1">>)
    /\ cache["get_deployment"][<<"d1">>].st = "done"
    /\ cache["get_deployment"][<<"d1">>].headers = "ApiKey key_dev"
    /\ Has("_get_deployments_cached", <<None>>)
    /\ cache["_get_deployments_cached"][<<None>>].headers = "ApiKey key_prod"
    /\ \E r \in last : /\ r.op = "get_deployments" /\ r.epoch = 0
                       /\ r.key = <<None>> /\ r.val = "prod"

\* the calls that wait for the task of an entry, and those among them that
\* started the task
Waiting(name, key) ==
    {s \in Slots : calls[s].pc = "wait" /\ calls[s].name = name /\ calls[s].key = key}

Creators(name, key) == {s \in Waiting(name, key) : ~calls[s].joined}

\* C17 as stated: a call of a cached operation that starts while a call with
\* the same arguments is waiting for its response sends a request of its own
C17_NotSingleFlight ==
    \A r \in last :
        (r.name \in CacheNames /\ r.joined) => r.gets = 1

\* C17: the cache is single-flight: while the request of a key is on its
\* way exactly one call has started it, and a call with the same arguments
\* that starts in the meantime sends nothing and returns, together with the
\* first call, the one result (or exception) of that request.
C17_SingleFlight ==
    /\ \A n \in CacheNames : \A k \in DOMAIN cache[n] :
          cache[n][k].st = "pending" => Cardinality(Creators(n, k)) = 1
    /\ \A r \in last :
          (r.name \in CacheNames /\ r.joined) =>
              /\ r.gets = 0
              /\ \E q \in last :
                    /\ q.name = r.name /\ q.key = r.key
                    /\ ~q.joined /\ q.gets = 1
                    /\ q.res = r.res /\ q.val = r.val /\ q.headers = r.headers

\* two get_deployment calls for the same id were waiting for one request
\* and have returned its result together
C17_Witness ==
    /\ \E r \in last : r.op = "get_deployment" /\ r.joined /\ r.res = "ok"
    /\ \E q \in last : q.op = "get_deployment" /\ ~q.joined /\ q.gets = 1
    /\ cache["get_deployment"][<<"d1">>].st = "done"

\* C18: the entry that answers a cost query was fetched by a query of the
\* same kind for the same organization, the same instance and the same two
\* instants: queries that differ in one of them never share an entry.
C18_BillingKeyedByOrg ==
    \A r \in last :
        (r.name = "_cached_billing_request" /\ r.res = "ok") =>
            /\ Has(r.name, r.key)
            /\ LET o == cache[r.name][r.key].origin IN
                  /\ o.op = r.op
                  /\ o.target = r.target
                  /\ o.instance = r.instance
                  /\ Instant(o.arg[2]) = Instant(r.arg[2])
                  /\ Instant(o.arg[3]) = Instant(r.arg[3])

\* the costs of an instance have been fetched for org_x although the cache
\* holds them for the same instance and the same dates for org_prod
C18_Witness ==
    \E r \in last :
        /\ r.op = "get_instance_costs" /\ r.target = "org_x"
        /\ r.gets = 1 /\ r.res = "ok"
        /\ \E k \in DOMAIN cache[r.name] :
              LET e == cache[r.name][k] IN
              /\ k # r.key
              /\ e.st = "done"
              /\ e.origin.op = r.op
              /\ e.origin.target = "org_prod"
              /\ e.origin.instance = r.instance
              /\ e.origin.arg[2] = r.arg[2]
              /\ e.origin.arg[3] = r.arg[3]

\* C19: a cached operation that raises leaves no entry for its arguments,
\* every entry holds a result, a call answered from the cache gets a result
\* and never an exception, and the call that follows a failed one with the
\* same arguments sends a request of its own.
C19_FailureNotCached ==
    /\ \A r \in last :
          r.name \in CacheNames =>
              /\ r.res \in Failures => (~Has(r.name, r.key) /\ r.wire = r.res)
              /\ (r.gets = 0 /\ ~r.joined) => (r.res = "ok" /\ r.val # None)
              /\ (r.retry /\ ~r.joined) => r.gets = 1
    /\ \A n \in CacheNames : \A k \in DOMAIN cache[n] :
          cache[n][k].st = "done" => cache[n][k].val # None

\* the listing had raised an HTTP error; the next call has sent a new
\* request and returned its result
C19_Witness ==
    \E r \in last :
        /\ r.op = "get_deployments"
        /\ r.retry /\ r.gets = 1 /\ r.res = "ok"
        /\ hist.started = 2

\* C20: a step in which no switch_account returns leaves account, api_key,
\* org_id and the Authorization header as they were, whether a read starts,
\* returns or raises in it; the resolved account id changes in such a step
\* only when a get_account_info call returns.
C20_ReadsKeepAccountState ==
    [][(\A r \in last' : r.op # "switch_account") =>
            /\ self'.account = self.account
            /\ self'.api_key = self.api_key
            /\ self'.org_id = self.org_id
            /\ self'.headers = self.headers
            /\ self'.account_id # self.account_id =>
                    \E r \in last' : r.op = "get_account_info" /\ r.res = "ok"]_vars

\* under prod, get_account_info has resolved the id and a cost query has
\* then raised: the client still holds the credentials of prod
C20_Witness ==
    /\ \E r \in last : r.op = "get_items_costs" /\ r.res = "RequestError"
    /\ self.account = "prod"
    /\ self.account_id = "id_prod"
    /\ self.org_id = "org_prod"
    /\ self.headers = "ApiKey key_prod"

====
